---- MODULE Spec2Model ----
(***************************************************************************)
(* The deployment-time resolver of solana-program-deploy-time.             *)
(*                                                                         *)
(* Three implementations live in the repository and are modelled side by   *)
(* side, selected by the variable impl:                                    *)
(*   "js"   src/src/index.js 1-195    best-effort walk with the file cache *)
(*   "dist" src/src/index.js 196-320  best-effort walk, no cache           *)
(*   "ts"   src/src/index.ts          strict walk (classifies every        *)
(*                                    transaction), no cache               *)
(*                                                                         *)
(* The ledger is a history of histLen signatures, newest first.  A         *)
(* signature is modelled by its position in that order: 1 is the newest,   *)
(* histLen the oldest.  The page size of getSignaturesForAddress (1000 in  *)
(* the source) is scaled down to PageLimit.                                *)
(***************************************************************************)
EXTENDS Integers, Sequences, FiniteSets, TLC

\* ------------------------------------------------------------------ bounds
PageLimit == 2          \* page size of one listSignatures call (1000 in the source)
MaxHistory == 7         \* longest ledger history: 3 full pages and a partial one
MaxStrictHistory == 4   \* longest ledger history walked by index.ts
MaxBlockTime == 1       \* block times are 0..MaxBlockTime
MaxInvocations == 2     \* invocation slots of the process
MaxConcHistory == 1     \* longest ledger history while invocations overlap
MaxConcThrottles == 1   \* 429 answers of the node where their number is bounded
MaxInstructions == 2    \* longest instruction list of a transaction

\* ------------------------------------------------------- program constants
REQUEST_INTERVAL_MS == 6000        \* index.js, cached implementation
requestInterval == 8000            \* index.js, compiled implementation
TS_REQUEST_INTERVAL_MS == 8000     \* index.ts
maxRetries == 5                    \* index.js, both implementations
MAX_RETRIES == 5                   \* index.ts
ConcurrencyTwo == 1 + 1
Concurrency == 1                   \* pLimit(1)

\* JavaScript's undefined and null, as numbers outside every other domain
Undefined == 0 - 2
Null == 0 - 1

Unlimited == 0 - 1

BPF_LOADER_PROGRAM_ID == "BPFLoader1111111111111111111111111111111111"

\* Identifiers that decode as a PublicKey.  The digits 4, 2 and 9 belong to
\* the base-58 alphabet, so an identifier may contain the text "429".
ProgramIds == {"P1", "P429"}
InvalidIds == {"bad"}               \* identifiers that do not decode
Invs == 1..MaxInvocations
BlockTimes == 0..MaxBlockTime
Impls == {"js", "dist", "ts"}

VARIABLES
    impl,           \* which implementation the process runs
    histLen,        \* ledger: length of the account's signature history
    deploys,        \* ledger: positions whose transaction targets the loader
    txFound,        \* ledger: getTransaction returns a record (not null)
    chainBlockTime, \* ledger: blockTime of the records getTransaction returns
    txInstructions, \* ledger: instruction lists of its transactions (the target
                    \* program of each instruction), by kind of transaction
    quota,          \* node: 429 answers it still gives (Unlimited: any number)
    cache,          \* cache.json: key -> <<>> (no entry) or <<JSON text of the entry>>
    queue,          \* pLimit: the invocations whose call waits, FIFO
    active,         \* pLimit: the invocations whose call is in flight
    inv             \* per invocation: its position and its locals

vars == <<impl, histLen, deploys, txFound, chainBlockTime, txInstructions,
          quota, cache, queue, active, inv>>

ledger == <<impl, histLen, deploys, txFound, chainBlockTime, txInstructions>>

\* ----------------------------------------------------------- pure helpers

\* The interval between batches: the constant of the running implementation.
Interval(im) ==
    CASE im = "js" -> REQUEST_INTERVAL_MS
      [] im = "dist" -> requestInterval
      [] OTHER -> TS_REQUEST_INTERVAL_MS

\* The retry limit of the running implementation.
RetryLimit(im) == IF im = "ts" THEN MAX_RETRIES ELSE maxRetries

RECURSIVE Pow2(_)
Pow2(n) == IF n = 0 THEN 1 ELSE 2 * Pow2(n - 1)

\* Math.pow(2, retries) * REQUEST_INTERVAL_MS
BackoffDelay(im, retries) == Pow2(retries) * Interval(im)

Min(a, b) == IF a < b THEN a ELSE b

\* connection.getSignaturesForAddress(publicKey, {before, limit: 1000}):
\* the at most PageLimit signatures strictly older than `before`, newest first.
getSignaturesForAddress(n, before) ==
    LET from == IF before = Undefined THEN 0 ELSE before
    IN  [k \in 1..Min(PageLimit, n - from) |-> from + k]

\* new PublicKey(programId) throws on an identifier that does not decode
PublicKeyOk(programId) == programId \in ProgramIds

\* `No transactions found for the program ID: ${programId}`.includes('429')
Has429(programId) == programId = "P429"

\* `timestamp:${programId}`
CacheKey(programId) == <<"timestamp", programId>>
CacheKeys == {CacheKey(p) : p \in ProgramIds}

\* The fields of a cache entry, in the order the code writes them.
EntryFields == <<"blockTime", "earliestSignature">>

\* JSON.stringify of a cache entry: the text holds the fields and their
\* values in order; a field whose value is undefined is left out, null is
\* written as null.
RECURSIVE StringifyFields(_, _)
StringifyFields(value, k) ==
    IF k > Len(EntryFields) THEN <<>>
    ELSE LET f == EntryFields[k]
         IN  (IF value[f] = Undefined THEN <<>> ELSE <<(<<f, value[f]>>)>>)
             \o StringifyFields(value, k + 1)

\* JSONstringify that also leaves out the fields whose value is null.
RECURSIVE StringifyFieldsNoNull(_, _)
StringifyFieldsNoNull(value, k) ==
    IF k > Len(EntryFields) THEN <<>>
    ELSE LET f == EntryFields[k]
         IN  (IF value[f] = Undefined \/ value[f] = Null THEN <<>>
              ELSE <<(<<f, value[f]>>)>>)
             \o StringifyFieldsNoNull(value, k + 1)

JSONstringifyNoNull(value) == StringifyFieldsNoNull(value, 1)

\* JSON.stringify of a cache entry.
JSONstringify(value) == StringifyFields(value, 1)

\* The value of field f in a JSON text; a field the text does not hold
\* reads as undefined.
RECURSIVE TextField(_, _)
TextField(text, f) ==
    IF text = <<>> THEN Undefined
    ELSE IF Head(text)[1] = f THEN Head(text)[2]
    ELSE TextField(Tail(text), f)

\* JSON.parse of the text of a cache entry
JSONparse(text) ==
    [blockTime |-> TextField(text, "blockTime"),
     earliestSignature |-> TextField(text, "earliestSignature")]

\* An object reference that may be null is <<>> (null) or <<object>>.
\* getCachedData(key): loadCache parses the file, then cache[key] || null
getCachedData(c, key) ==
    IF c[key] = <<>> THEN <<>> ELSE <<JSONparse(c[key][1])>>

\* FieldOrNull that reads the blockTime whatever the field.
FieldOrNullBlockTime(data, f) == IF data = <<>> THEN Null ELSE data[1].blockTime

\* cacheData ? cacheData.field : null   and   getCachedData(key)?.field
FieldOrNull(data, f) == IF data = <<>> THEN Null ELSE data[1][f]
FieldOrUndefined(data, f) == IF data = <<>> THEN Undefined ELSE data[1][f]

\* loadCache: the parsed file, key -> <<>> or <<entry>>
loadCache(c) == [k \in DOMAIN c |-> IF c[k] = <<>> THEN <<>> ELSE <<JSONparse(c[k][1])>>]

\* saveCache: the file rewritten from the object
saveCache(obj) ==
    [k \in DOMAIN obj |-> IF obj[k] = <<>> THEN <<>> ELSE <<JSONstringify(obj[k][1])>>]

\* setCachedData that rewrites the file with the one entry.
setCachedDataAlone(c, key, value) ==
    saveCache([k \in DOMAIN c |-> IF k = key THEN <<value>> ELSE <<>>])

\* setCachedData(key, value): load the file, set the key, rewrite the file
setCachedData(c, key, value) == saveCache([loadCache(c) EXCEPT ![key] = <<value>>])

\* JavaScript truthiness of a blockTime: null, undefined and 0 are falsy
Truthy(v) == v # Null /\ v # Undefined /\ v # 0

\* blockTime === null || blockTime === undefined
Unavailable(v) == v = Null \/ v = Undefined

\* The target programs an instruction may have, and the instruction lists of
\* at most MaxInstructions instructions.
TargetIds == {"System", BPF_LOADER_PROGRAM_ID}
InstructionLists == UNION {[1..n -> TargetIds] : n \in 0..MaxInstructions}

\* Whether the transaction deploys a program: an instruction of it is
\* addressed to the loader.
TargetsLoader(instructions) ==
    \E k \in 1..Len(instructions) : instructions[k] = BPF_LOADER_PROGRAM_ID

\* The instruction lists of the ledger's deployment transactions and of its
\* other transactions.
LedgerInstructions ==
    [deployment : {l \in InstructionLists : TargetsLoader(l)},
     other : {l \in InstructionLists : ~TargetsLoader(l)}]

DefaultInstructions ==
    [deployment |-> <<"System", BPF_LOADER_PROGRAM_ID>>, other |-> <<"System">>]

\* isProgramDeployment that looks at the first instruction only.
isProgramDeploymentFirstOnly(instructions) ==
    IF instructions = <<>> THEN FALSE
    ELSE Head(instructions) = BPF_LOADER_PROGRAM_ID

\* isProgramDeployment(instructions): some instruction targets the loader
RECURSIVE isProgramDeployment(_)
isProgramDeployment(instructions) ==
    IF instructions = <<>> THEN FALSE
    ELSE IF Head(instructions) = BPF_LOADER_PROGRAM_ID THEN TRUE
    ELSE isProgramDeployment(Tail(instructions))

\* connection.getTransaction(signature): null when the ledger has no record
getTransaction(found, bt, dep, signature) ==
    IF found
    THEN <<[blockTime |-> bt,
            instructions |-> IF signature \in dep
                             THEN txInstructions.deployment
                             ELSE txInstructions.other]>>
    ELSE <<>>

\* ------------------------------------------------------------ invocations

IdleInv ==
    [pc |-> "idle", programId |-> "none", forceRefresh |-> FALSE,
     before |-> Undefined, earliestSignature |-> Undefined,
     totalSignaturesFetched |-> 0, retries |-> 0, blockTime |-> Undefined,
     signatures |-> <<>>, idx |-> 0, sleeping |-> 0,
     error |-> "none", settled |-> "pending", report |-> <<>>,
     printed |-> <<>>, returned |-> <<>>, loaded |-> <<>>,
     \* history of the invocation, read by the properties only
     issued |-> FALSE, nListOk |-> 0, nFinalOk |-> 0, nWrites |-> 0,
     throttled |-> FALSE, streak |-> 0, cacheHit |-> FALSE, startCache |-> <<>>,
     reqBefore |-> Undefined, okCursor |-> Undefined, prevBatchEnd |-> Undefined,
     lastBatchEnd |-> Undefined, lastBatchLen |-> 0, backoffs |-> <<>>,
     classified |-> <<>>, cursors |-> <<>>, failed |-> FALSE,
     entryBefore |-> <<>>, cacheRead |-> FALSE, waited |-> 0]

TypeOK ==
    /\ impl \in Impls
    /\ histLen \in 0..MaxHistory
    /\ deploys \subseteq 1..histLen
    /\ txFound \in BOOLEAN
    /\ chainBlockTime \in BlockTimes \cup {Null, Undefined}
    /\ txInstructions \in LedgerInstructions
    /\ DOMAIN cache = CacheKeys
    /\ active \subseteq Invs
    /\ \A i \in Invs : inv[i].pc \in
          {"idle", "list", "scan", "final", "delay", "backoff", "load", "save", "done"}

\* new Date(blockTime * 1000).toISOString(): the instant blockTime seconds
\* after the epoch, in milliseconds, rendered in the ISO-8601 form.
toISOString(blockTime) == [form |-> "ISO-8601", ms |-> blockTime * 1000]

\* The invocation ends: its promise settles and nothing of it stays pending.
\* No implementation has a return statement with a value: the promise of a
\* normal end carries undefined (<<>>, as for an absent object).
Finish(r, err, how) ==
    [r EXCEPT !.pc = "done", !.error = err, !.settled = how, !.returned = <<>>]

\* An error thrown inside the function body.  index.js catches it at the end
\* of the function and logs it, so the promise resolves; index.ts has no
\* catch, so the promise rejects.
Throw(im, r, err) == Finish(r, err, IF im = "ts" THEN "rejected" ELSE "resolved")

\* Report: the null check on blockTime and the printed result.
Report(r) ==
    IF Unavailable(r.blockTime)
    THEN Finish(r, "BlockTimeUnavailable", "resolved")
    ELSE Finish([r EXCEPT !.report = <<[blockTime |-> r.blockTime,
                                        earliestSignature |-> r.earliestSignature]>>,
                          !.printed = <<toISOString(r.blockTime)>>],
                "none", "resolved")

\* A signature is truthy unless it is null or undefined.
HasSignature(sig) == sig # Null /\ sig # Undefined

\* StartBody without the decoding of the identifier.
StartBodyUnchecked(im, c, i, p, force) ==
    LET r0 == [IdleInv EXCEPT !.programId = p, !.forceRefresh = force]
    IN  IF im = "js"
        THEN LET cacheData == IF CacheKey(p) \in DOMAIN c
                              THEN getCachedData(c, CacheKey(p)) ELSE <<>>
                 r1 == [r0 EXCEPT !.startCache = cacheData, !.cacheRead = TRUE,
                                  !.blockTime = FieldOrNull(cacheData, "blockTime"),
                                  !.earliestSignature =
                                      FieldOrNull(cacheData, "earliestSignature")]
             IN  IF Truthy(r1.blockTime) /\ ~force
                 THEN Report([r1 EXCEPT !.cacheHit = TRUE])
                 ELSE [r1 EXCEPT !.pc = "list"]
        ELSE [r0 EXCEPT !.pc = "list"]

\* Start of an invocation, up to its first await.
\*   index.js: PublicKey, cache lookup, then either the cached report or the
\*             first listSignatures request handed to the limiter;
\*   dist, ts: PublicKey, then the first listSignatures request.
StartBody(im, c, i, p, force) ==
    LET r0 == [IdleInv EXCEPT !.programId = p, !.forceRefresh = force]
    IN  IF ~PublicKeyOk(p) THEN Throw(im, r0, "InvalidProgramId")
        ELSE IF im = "js"
        THEN LET cacheData == getCachedData(c, CacheKey(p))
                 r1 == [r0 EXCEPT !.startCache = cacheData, !.cacheRead = TRUE,
                                  !.blockTime = FieldOrNull(cacheData, "blockTime"),
                                  !.earliestSignature =
                                      FieldOrNull(cacheData, "earliestSignature")]
             IN  IF Truthy(r1.blockTime) /\ ~force
                 THEN Report([r1 EXCEPT !.cacheHit = TRUE])
                 ELSE [r1 EXCEPT !.pc = "list"]
        ELSE [r0 EXCEPT !.pc = "list"]

\* Whether the record waits on the limiter after the step.
Waits(r) == r.pc \in {"list", "scan", "final"}

Start(i, p, force) ==
    /\ inv[i].pc = "idle"
    /\ LET r == StartBody(impl, cache, i, p, force)
       IN  /\ inv' = [inv EXCEPT ![i] = r]
           /\ queue' = IF Waits(r) THEN Append(queue, i) ELSE queue
    /\ UNCHANGED <<ledger, quota, cache, active>>

\* The history of the cursors of the listSignatures calls, a repeated
\* cursor counted once.
NoteCursor(cursors, before) ==
    IF cursors # <<>> /\ cursors[Len(cursors)] = before THEN cursors
    ELSE Append(cursors, before)

\* pLimit: the head of the queue starts when fewer than Concurrency calls run.
LimiterRun ==
    /\ queue # <<>>
    /\ Cardinality(active) < Concurrency
    /\ LET i == Head(queue)
           r == inv[i]
       IN  /\ active' = active \cup {i}
           /\ queue' = Tail(queue)
           /\ inv' = [inv EXCEPT ![i] =
                        IF r.pc = "list"
                        THEN [r EXCEPT !.issued = TRUE, !.reqBefore = r.before,
                                       !.cursors = NoteCursor(@, r.before)]
                        ELSE [r EXCEPT !.issued = TRUE]]
    /\ UNCHANGED <<ledger, quota, cache>>

\* After the walk of index.js: the transaction of the earliest signature is
\* requested (the cached implementation skips the request without one).
AfterWalk(im, r) ==
    IF im = "js" /\ ~HasSignature(r.earliestSignature)
    THEN Report(r)
    ELSE [r EXCEPT !.pc = "final"]

\* The history of a throttled call.
NoteThrottle(r) == [r EXCEPT !.throttled = TRUE, !.streak = @ + 1]

\* The history of a successful call.
NoteSuccess(r) == [r EXCEPT !.streak = 0, !.backoffs = <<>>]

\* catch of the walk loop on an error whose message includes '429': backoff
\* while retries remain.  index.js throws its own error once they are used
\* up, index.ts rethrows the error it caught.
CatchTooManyOffByOne(im, r) ==
    IF r.retries <= RetryLimit(im)
    THEN [r EXCEPT !.pc = "backoff", !.sleeping = BackoffDelay(im, r.retries)]
    ELSE Throw(im, r, IF im = "ts" THEN "TooManyRequests" ELSE "RetryExhausted")

CatchTooMany(im, r) ==
    IF r.retries < RetryLimit(im)
    THEN [r EXCEPT !.pc = "backoff", !.sleeping = BackoffDelay(im, r.retries)]
    ELSE Throw(im, r, IF im = "ts" THEN "TooManyRequests" ELSE "RetryExhausted")

\* A call of the walk was answered 429.
OnThrottle(im, r) ==
    LET r1 == CatchTooMany(im, NoteThrottle(r))
    IN  IF r1.pc = "backoff" THEN [r1 EXCEPT !.backoffs = Append(@, r1.sleeping)]
        ELSE r1

\* throw new Error(`No transactions found for the program ID: ${programId}`)
\* inside the try of the loop: the catch of the loop reads the message, and
\* takes it for a 429 when the identifier contains that text.
ThrowNoTransactions(im, r) ==
    IF Has429(r.programId) THEN CatchTooMany(im, r)
    ELSE Throw(im, r, "NoTransactionsFound")

\* OnBatchJs with the earliest signature taken from the head of the batch.
OnBatchJsNewest(im, r, signatures) ==
    IF Len(signatures) = 0
    THEN IF r.totalSignaturesFetched = 0
         THEN ThrowNoTransactions(im, r)
         ELSE AfterWalk(im, r)
    ELSE LET r1 == [r EXCEPT
                      !.before = signatures[Len(signatures)],
                      !.earliestSignature = signatures[1],
                      !.totalSignaturesFetched = @ + Len(signatures),
                      !.retries = 0]
         IN  IF Len(signatures) < PageLimit
             THEN AfterWalk(im, r1)
             ELSE [r1 EXCEPT !.pc = "delay", !.sleeping = Interval(im)]

\* OnBatchJs that requests the next batch at once.
OnBatchJsNoDelay(im, r, signatures) ==
    IF Len(signatures) = 0
    THEN IF r.totalSignaturesFetched = 0
         THEN ThrowNoTransactions(im, r)
         ELSE AfterWalk(im, r)
    ELSE LET r1 == [r EXCEPT
                      !.before = signatures[Len(signatures)],
                      !.earliestSignature = signatures[Len(signatures)],
                      !.totalSignaturesFetched = @ + Len(signatures),
                      !.retries = 0]
         IN  IF Len(signatures) < PageLimit
             THEN AfterWalk(im, r1)
             ELSE [r1 EXCEPT !.pc = "list"]

\* OnBatchJs that takes every empty batch for an empty history.
OnBatchJsEmptyThrows(im, r, signatures) ==
    IF Len(signatures) = 0
    THEN ThrowNoTransactions(im, r)
    ELSE LET r1 == [r EXCEPT
                      !.before = signatures[Len(signatures)],
                      !.earliestSignature = signatures[Len(signatures)],
                      !.totalSignaturesFetched = @ + Len(signatures),
                      !.retries = 0]
         IN  IF Len(signatures) < PageLimit
             THEN AfterWalk(im, r1)
             ELSE [r1 EXCEPT !.pc = "delay", !.sleeping = Interval(im)]

\* A batch arrived in index.js (both implementations).
OnBatchJs(im, r, signatures) ==
    IF Len(signatures) = 0
    THEN IF r.totalSignaturesFetched = 0
         THEN ThrowNoTransactions(im, r)
         ELSE AfterWalk(im, r)
    ELSE LET r1 == [r EXCEPT
                      !.before = signatures[Len(signatures)],
                      !.earliestSignature = signatures[Len(signatures)],
                      !.totalSignaturesFetched = @ + Len(signatures),
                      !.retries = 0]
         IN  IF Len(signatures) < PageLimit
             THEN AfterWalk(im, r1)
             ELSE [r1 EXCEPT !.pc = "delay", !.sleeping = Interval(im)]

\* A batch arrived in index.ts: an empty one ends the walk without a
\* deployment, any other is scanned from its first signature.
OnBatchTs(r, signatures) ==
    IF Len(signatures) = 0
    THEN Finish(r, "NoDeploymentFound", "resolved")
    ELSE [r EXCEPT !.pc = "scan", !.signatures = signatures, !.idx = 1]

\* The history of a successful listSignatures call.
NoteBatch(r, signatures) ==
    [NoteSuccess(r) EXCEPT !.nListOk = @ + 1,
              !.okCursor = r.reqBefore,
              !.prevBatchEnd = r.lastBatchEnd,
              !.lastBatchEnd = IF Len(signatures) = 0 THEN @
                               ELSE signatures[Len(signatures)],
              !.lastBatchLen = Len(signatures),
              !.waited = 0]

\* The history of a call that failed without a 429.
NoteFailure(r) == [r EXCEPT !.failed = TRUE]

\* ListBody whose catch retries every error.
ListBodyRetryAll(im, r, n, outcome) ==
    CASE outcome = "ok" ->
            LET signatures == getSignaturesForAddress(n, r.before)
                r1 == NoteBatch(r, signatures)
            IN  IF im = "ts" THEN OnBatchTs(r1, signatures)
                ELSE OnBatchJs(im, r1, signatures)
      [] outcome = "429" -> OnThrottle(im, r)
      [] OTHER -> CatchTooMany(im, NoteFailure(r))

\* The listSignatures call arrived: a batch, a 429, or another error, which
\* the catch of the loop throws again.
ListBody(im, r, n, outcome) ==
    CASE outcome = "ok" ->
            LET signatures == getSignaturesForAddress(n, r.before)
                r1 == NoteBatch(r, signatures)
            IN  IF im = "ts" THEN OnBatchTs(r1, signatures)
                ELSE OnBatchJs(im, r1, signatures)
      [] outcome = "429" -> OnThrottle(im, r)
      [] OTHER -> Throw(im, NoteFailure(r), "RemoteError")

\* The call of invocation i completes with `outcome`; pLimit frees its slot
\* and the function runs on to its next await.
Respond(i, r, outcome) ==
    /\ outcome = "429" => quota # 0
    /\ quota' = IF outcome = "429" /\ quota > 0 THEN quota - 1 ELSE quota
    /\ inv' = [inv EXCEPT ![i] = r]
    /\ active' = active \ {i}
    /\ queue' = IF Waits(r) THEN Append(queue, i) ELSE queue

ListResponse(i, outcome) ==
    /\ i \in active
    /\ inv[i].pc = "list"
    /\ Respond(i, ListBody(impl, inv[i], histLen, outcome), outcome)
    /\ UNCHANGED <<ledger, cache>>

\* delay(REQUEST_INTERVAL_MS) elapsed: the loop requests the next batch.
DelayElapsed(i) ==
    /\ inv[i].pc = "delay"
    /\ inv' = [inv EXCEPT ![i] = [@ EXCEPT !.pc = "list", !.sleeping = 0,
                                            !.waited = inv[i].sleeping]]
    /\ queue' = Append(queue, i)
    /\ UNCHANGED <<ledger, quota, cache, active>>

\* BackoffBody that restarts the walk from the newest signature.
BackoffBodyRestart(r) ==
    [r EXCEPT !.pc = "list", !.sleeping = 0, !.retries = @ + 1, !.before = Undefined]

\* delay(delayTime) elapsed: retries += 1 and the loop repeats the request.
BackoffBody(r) == [r EXCEPT !.pc = "list", !.sleeping = 0, !.retries = @ + 1]

BackoffElapsed(i) ==
    /\ inv[i].pc = "backoff"
    /\ inv' = [inv EXCEPT ![i] = [BackoffBody(inv[i]) EXCEPT
                                     !.waited = inv[i].sleeping]]
    /\ queue' = Append(queue, i)
    /\ UNCHANGED <<ledger, quota, cache, active>>

\* The history of a classification: the instruction list and the answer.
NoteClassified(r, transactionDetails) ==
    IF transactionDetails = <<>> THEN r
    ELSE [r EXCEPT !.classified =
            <<[instructions |-> transactionDetails[1].instructions,
               result |-> isProgramDeployment(transactionDetails[1].instructions)]>>]

\* A transaction of the batch scan of index.ts arrived: a deployment ends
\* the scan and the walk; the last signature of the batch moves the cursor
\* and starts the delay between batches.
ScanBody(r, found, bt, dep, outcome) ==
    CASE outcome = "ok" ->
            LET signature == r.signatures[r.idx]
                transactionDetails == getTransaction(found, bt, dep, signature)
                r1 == NoteClassified(NoteSuccess(r), transactionDetails)
            IN  IF transactionDetails # <<>>
                   /\ isProgramDeployment(transactionDetails[1].instructions)
                THEN [r1 EXCEPT !.earliestSignature = signature, !.pc = "final"]
                ELSE IF r.idx < Len(r.signatures)
                THEN [r1 EXCEPT !.idx = @ + 1]
                ELSE [r1 EXCEPT !.before = r.signatures[Len(r.signatures)],
                                !.totalSignaturesFetched = @ + Len(r.signatures),
                                !.pc = "delay",
                                !.sleeping = Interval("ts")]
      [] outcome = "429" -> OnThrottle("ts", r)
      [] OTHER -> Throw("ts", NoteFailure(r), "RemoteError")

ScanResponse(i, outcome) ==
    /\ i \in active
    /\ inv[i].pc = "scan"
    /\ Respond(i, ScanBody(inv[i], txFound, chainBlockTime, deploys, outcome), outcome)
    /\ UNCHANGED <<ledger, cache>>

\* CacheDiffers that holds whatever the cache contains.
CacheDiffersAlways(c, key, blockTime) == blockTime = blockTime

\* Whether the cached implementation rewrites the cache entry.
CacheDiffers(c, key, blockTime) ==
    blockTime # FieldOrUndefined(getCachedData(c, key), "blockTime")

\* The transaction of the chosen signature arrived.  No catch retries this
\* call: any failure ends the invocation.
FinalBody(im, r, found, bt, dep, c, outcome) ==
    IF outcome # "ok"
    THEN IF outcome = "429"
         THEN Throw(im, NoteThrottle(r), "TooManyRequests")
         ELSE Throw(im, NoteFailure(r), "RemoteError")
    ELSE LET transactionDetails == getTransaction(found, bt, dep, r.earliestSignature)
             r0 == [NoteSuccess(r) EXCEPT !.nFinalOk = @ + 1]
         IN  IF im = "ts"
             THEN Report([r0 EXCEPT !.blockTime =
                             FieldOrUndefined(transactionDetails, "blockTime")])
             ELSE IF transactionDetails = <<>>
             THEN Throw(im, r0, "TransactionNotFound")
             ELSE LET r1 == [r0 EXCEPT !.blockTime = transactionDetails[1].blockTime,
                                           !.entryBefore =
                                               IF im = "js"
                                               THEN getCachedData(c, CacheKey(r.programId))
                                               ELSE <<>>]
                  IN  IF im = "js" /\ CacheDiffers(c, CacheKey(r.programId), r1.blockTime)
                      THEN Report([r1 EXCEPT !.nWrites = @ + 1])
                      ELSE Report(r1)

\* The cache file after the step of FinalBody.
FinalCache(im, r, found, bt, dep, c, outcome) ==
    LET transactionDetails == getTransaction(found, bt, dep, r.earliestSignature)
        key == CacheKey(r.programId)
    IN  IF im = "js" /\ outcome = "ok" /\ transactionDetails # <<>>
           /\ CacheDiffers(c, key, transactionDetails[1].blockTime)
        THEN setCachedData(c, key,
                 [blockTime |-> transactionDetails[1].blockTime,
                  earliestSignature |-> r.earliestSignature])
        ELSE c

FinalResponse(i, outcome) ==
    /\ i \in active
    /\ inv[i].pc = "final"
    /\ Respond(i, FinalBody(impl, inv[i], txFound, chainBlockTime, deploys,
                            cache, outcome), outcome)
    /\ cache' = FinalCache(impl, inv[i], txFound, chainBlockTime, deploys,
                           cache, outcome)
    /\ UNCHANGED ledger

\* The steps of the cache update when each invocation runs in a process of
\* its own on the one cache file.  Every process has its own limiter, so its
\* call starts as soon as it is requested; the file calls of setCachedData
\* are separate steps among which the other process may run.
ProcessRun(i) ==
    /\ \E k \in 1..Len(queue) : queue[k] = i
    /\ queue' = SelectSeq(queue, LAMBDA j : j # i)
    /\ active' = active \cup {i}
    /\ inv' = [inv EXCEPT ![i] =
                 IF inv[i].pc = "list"
                 THEN [@ EXCEPT !.issued = TRUE, !.reqBefore = inv[i].before,
                                !.cursors = NoteCursor(@, inv[i].before)]
                 ELSE [@ EXCEPT !.issued = TRUE]]
    /\ UNCHANGED <<ledger, quota, cache>>

\* The transaction of the chosen signature arrived: blockTime is compared
\* with the entry in the file (getCachedData reads the file).
ProcessFinalResponse(i) ==
    /\ i \in active
    /\ inv[i].pc = "final"
    /\ LET r == inv[i]
           transactionDetails ==
               getTransaction(txFound, chainBlockTime, deploys, r.earliestSignature)
           r0 == [NoteSuccess(r) EXCEPT !.nFinalOk = @ + 1]
       IN  IF transactionDetails = <<>>
           THEN inv' = [inv EXCEPT ![i] = Throw(impl, r0, "TransactionNotFound")]
           ELSE LET r1 == [r0 EXCEPT
                             !.blockTime = transactionDetails[1].blockTime,
                             !.entryBefore = getCachedData(cache, CacheKey(r.programId))]
                IN  inv' = [inv EXCEPT ![i] =
                              IF CacheDiffers(cache, CacheKey(r.programId), r1.blockTime)
                              THEN [r1 EXCEPT !.pc = "load"]
                              ELSE Report(r1)]
    /\ active' = active \ {i}
    /\ UNCHANGED <<ledger, quota, cache, queue>>

\* setCachedData, first statement: const cache = loadCache()
ProcessLoad(i) ==
    /\ inv[i].pc = "load"
    /\ inv' = [inv EXCEPT ![i] = [@ EXCEPT !.pc = "save", !.loaded = <<loadCache(cache)>>]]
    /\ UNCHANGED <<ledger, quota, cache, queue, active>>

\* SavedFile that holds the entry of the process and no other.
SavedFileAlone(r) ==
    saveCache([k \in DOMAIN r.loaded[1] |->
                 IF k = CacheKey(r.programId)
                 THEN <<[blockTime |-> r.blockTime,
                         earliestSignature |-> r.earliestSignature]>>
                 ELSE <<>>])

\* The file a process writes: the object it loaded, with its entry set.
SavedFile(r) ==
    saveCache([r.loaded[1] EXCEPT ![CacheKey(r.programId)] =
                 <<[blockTime |-> r.blockTime,
                    earliestSignature |-> r.earliestSignature]>>])

\* setCachedData, the rest: cache[key] = value; saveCache(cache); then the
\* report of the invocation.
ProcessSave(i) ==
    /\ inv[i].pc = "save"
    /\ cache' = SavedFile(inv[i])
    /\ inv' = [inv EXCEPT ![i] = Report([@ EXCEPT !.nWrites = @ + 1])]
    /\ UNCHANGED <<ledger, quota, queue, active>>

\* The caller is done with a settled invocation; the slot is free again.
Reset(i) ==
    /\ inv[i].pc = "done"
    /\ inv' = [inv EXCEPT ![i] = IdleInv]
    /\ UNCHANGED <<ledger, quota, cache, queue, active>>

\* ---------------------------------------------------------- specifications

Outcomes == {"ok", "429", "error"}

InitLedger ==
    /\ impl \in Impls
    /\ histLen \in 0..(IF impl = "ts" THEN MaxStrictHistory ELSE MaxHistory)
    /\ txFound \in BOOLEAN
    /\ chainBlockTime \in IF txFound THEN BlockTimes \cup {Null, Undefined}
                          ELSE {Undefined}
    /\ deploys \in IF impl = "ts" THEN SUBSET (1..histLen) ELSE {{}}
    /\ txInstructions = DefaultInstructions

InitRest ==
    /\ cache = [k \in CacheKeys |-> <<>>]
    /\ queue = <<>>
    /\ active = {}
    /\ inv = [i \in Invs |-> IdleInv]

Init == InitLedger /\ quota = Unlimited /\ InitRest

Others(i) == Invs \ {i}

\* One invocation at a time: the caller awaits each call before the next.
StartSeq(i, p, force) ==
    /\ \A j \in Others(i) : inv[j].pc = "idle" /\ i < j
    /\ Start(i, p, force)

\* The arguments of an invocation.  Only the cached implementation has a
\* forceRefresh parameter; index.ts never reads the identifier after decoding it.
ArgIds(im) == IF im = "ts" THEN {"P1"} \cup InvalidIds ELSE ProgramIds \cup InvalidIds
ArgForce(im) == IF im = "js" THEN BOOLEAN ELSE {FALSE}

Next ==
    \/ \E i \in Invs, p \in ArgIds(impl), force \in ArgForce(impl) :
          StartSeq(i, p, force)
    \/ LimiterRun
    \/ \E i \in Invs, o \in Outcomes : ListResponse(i, o)
    \/ \E i \in Invs, o \in Outcomes : ScanResponse(i, o)
    \/ \E i \in Invs, o \in Outcomes : FinalResponse(i, o)
    \/ \E i \in Invs : DelayElapsed(i)
    \/ \E i \in Invs : BackoffElapsed(i)
    \/ \E i \in Invs : Reset(i)

Spec == Init /\ [][Next]_vars

\* The steps of an invocation under way: the limiter hands on the waiting
\* call, the node answers the call in flight, a timer fires.
Progress ==
    \/ LimiterRun
    \/ \E i \in Invs, o \in Outcomes : ListResponse(i, o)
    \/ \E i \in Invs, o \in Outcomes : ScanResponse(i, o)
    \/ \E i \in Invs, o \in Outcomes : FinalResponse(i, o)
    \/ \E i \in Invs : DelayElapsed(i)
    \/ \E i \in Invs : BackoffElapsed(i)

\* Spec with a node that answers every call, in any way, and timers that fire.
SpecLive == Spec /\ WF_vars(Progress)

\* Overlapping invocations in one process: the caller starts every call
\* without awaiting the others, and all share the limiter.  The calls ask
\* for the same program, so that they also share its cache entry.
NextConc ==
    \/ \E i \in Invs, force \in ArgForce(impl) : Start(i, "P1", force)
    \/ LimiterRun
    \/ \E i \in Invs, o \in Outcomes : ListResponse(i, o)
    \/ \E i \in Invs, o \in Outcomes : ScanResponse(i, o)
    \/ \E i \in Invs, o \in Outcomes : FinalResponse(i, o)
    \/ \E i \in Invs : DelayElapsed(i)
    \/ \E i \in Invs : BackoffElapsed(i)

InitConc ==
    /\ InitLedger
    /\ histLen <= MaxConcHistory
    /\ txFound /\ chainBlockTime = MaxBlockTime
    /\ quota = MaxConcThrottles
    /\ InitRest

SpecConc == InitConc /\ [][NextConc]_vars

\* The cached implementation started on a cache file that earlier runs of
\* the process have left: any entry for P1, with a blockTime (the null that
\* an unavailable block time leaves included) and a signature.
CachedEntries ==
    {<<>>} \cup {<<[blockTime |-> b, earliestSignature |-> g]>> :
                    b \in BlockTimes \cup {Null}, g \in 1..PageLimit}

InitCache ==
    /\ impl = "js"
    /\ histLen \in 0..(PageLimit + 1)
    /\ txFound \in BOOLEAN
    /\ chainBlockTime \in IF txFound THEN BlockTimes \cup {Null, Undefined}
                          ELSE {Undefined}
    /\ deploys = {}
    /\ txInstructions = DefaultInstructions
    /\ quota = MaxConcThrottles
    /\ \E e \in CachedEntries :
          cache = [k \in CacheKeys |->
                     IF k = CacheKey("P1") /\ e # <<>>
                     THEN <<JSONstringify(e[1])>> ELSE <<>>]
    /\ queue = <<>>
    /\ active = {}
    /\ inv = [i \in Invs |-> IdleInv]

NextCache ==
    \/ \E i \in Invs, p \in ArgIds(impl), force \in ArgForce(impl) :
          StartSeq(i, p, force)
    \/ LimiterRun
    \/ \E i \in Invs, o \in Outcomes : ListResponse(i, o)
    \/ \E i \in Invs, o \in Outcomes : FinalResponse(i, o)
    \/ \E i \in Invs : DelayElapsed(i)
    \/ \E i \in Invs : BackoffElapsed(i)
    \/ \E i \in Invs : Reset(i)

SpecCache == InitCache /\ [][NextCache]_vars

\* Processes of the cached implementation, one invocation each, for
\* different programs, on one cache file that is empty at first; the node
\* answers every call.
InitProcesses ==
    /\ impl = "js"
    /\ histLen \in 1..(PageLimit + 1)
    /\ txFound \in BOOLEAN
    /\ chainBlockTime \in IF txFound THEN BlockTimes ELSE {Undefined}
    /\ deploys = {}
    /\ txInstructions = DefaultInstructions
    /\ quota = 0
    /\ InitRest

NextProcesses ==
    \/ \E i \in Invs, p \in ProgramIds, force \in BOOLEAN :
          /\ \A j \in Others(i) : inv[j].programId # p
          /\ Start(i, p, force)
    \/ \E i \in Invs : ProcessRun(i)
    \/ \E i \in Invs : ListResponse(i, "ok")
    \/ \E i \in Invs : DelayElapsed(i)
    \/ \E i \in Invs : ProcessFinalResponse(i)
    \/ \E i \in Invs : ProcessLoad(i)
    \/ \E i \in Invs : ProcessSave(i)

SpecProcesses == InitProcesses /\ [][NextProcesses]_vars

\* The strict walk of index.ts over ledgers whose transactions carry every
\* instruction list of at most MaxInstructions instructions; the node
\* answers every call.
InitClassify ==
    /\ impl = "ts"
    /\ histLen \in 0..PageLimit
    /\ txFound \in BOOLEAN
    /\ chainBlockTime = MaxBlockTime
    /\ deploys \in SUBSET (1..histLen)
    /\ txInstructions \in LedgerInstructions
    /\ quota = 0
    /\ InitRest

NextClassify ==
    \/ \E i \in Invs : StartSeq(i, "P1", FALSE)
    \/ LimiterRun
    \/ \E i \in Invs : ListResponse(i, "ok")
    \/ \E i \in Invs : ScanResponse(i, "ok")
    \/ \E i \in Invs : FinalResponse(i, "ok")
    \/ \E i \in Invs : DelayElapsed(i)

SpecClassify == InitClassify /\ [][NextClassify]_vars

\* ------------------------------------------------------------- properties

\* The call of invocation i waits in the limiter or is in flight.
InLimiter(i) == i \in active \/ \E k \in 1..Len(queue) : queue[k] = i

\* The cache entry invocation i found at its start has a blockTime.
FoundCached(i) ==
    /\ inv[i].startCache # <<>>
    /\ ~Unavailable(inv[i].startCache[1].blockTime)

\* C1 (as claimed): an invocation without forceRefresh that finds a cache
\* entry with a non-null blockTime issues no remote call, writes no cache
\* entry and reports exactly the cached blockTime and earliestSignature.
C1_CachedAnswerNeedsNoRemoteCall ==
    \A i \in Invs :
        (impl = "js" /\ inv[i].pc # "idle" /\ ~inv[i].forceRefresh /\ FoundCached(i))
        => /\ inv[i].pc = "done"
           /\ ~inv[i].issued /\ ~InLimiter(i)
           /\ inv[i].nWrites = 0
           /\ inv[i].report = inv[i].startCache

\* C2 (as claimed): the cache is written only with a resolved blockTime, so
\* no cache entry ever holds a null or absent blockTime.
C2_NoNullBlockTimeCached ==
    \A k \in CacheKeys :
        cache[k] # <<>> => ~Unavailable(getCachedData(cache, k)[1].blockTime)

GaveUp(i) == inv[i].error = (IF impl = "ts" THEN "TooManyRequests" ELSE "RetryExhausted")

C4_BackoffDoublesFromBase ==
    \A i \in Invs :
        \A k \in 1..Len(inv[i].backoffs) :
            inv[i].backoffs[k] = Interval(impl) * Pow2(k - 1)

\* C5 (as claimed): once a non-empty batch shorter than the page size was
\* returned the walk requests no further batch: nothing of the walk is
\* pending, and a history of k full pages and a partial one takes k+1 calls.
C5_StopsAtPartialBatch ==
    \A i \in Invs :
        (inv[i].lastBatchLen > 0 /\ inv[i].lastBatchLen < PageLimit)
        => /\ inv[i].pc \in {"final", "done"}
           /\ ~inv[i].throttled => inv[i].nListOk = (histLen \div PageLimit) + 1

\* C6 (as claimed): the first listSignatures call has no cursor, every later
\* successful call has the last signature of the previous successful batch
\* as its cursor, and a retried call has the cursor of the failed one.
C6_CursorChain ==
    \A i \in Invs :
        /\ inv[i].nListOk >= 1 => inv[i].okCursor = inv[i].prevBatchEnd
        /\ (inv[i].pc = "list" /\ i \in active) => inv[i].reqBefore = inv[i].lastBatchEnd

\* C7 (as claimed): an empty first batch ends the invocation with
\* NoTransactionsFound, without any further remote call or cache write.
C7_EmptyFirstBatch ==
    \A i \in Invs :
        (inv[i].nListOk >= 1 /\ histLen = 0)
        => /\ inv[i].pc = "done" /\ inv[i].error = "NoTransactionsFound"
           /\ inv[i].nListOk = 1 /\ inv[i].nFinalOk = 0 /\ inv[i].nWrites = 0
           /\ ~InLimiter(i)

\* The oldest deployment of the history.
OldestDeployment == CHOOSE d \in deploys : \A e \in deploys : e <= d

\* C9 (as claimed): in strict mode the walk resolves to the oldest
\* deployment transaction of the history.
C9_StrictFindsOldestDeployment ==
    \A i \in Invs :
        (impl = "ts" /\ deploys # {} /\ txFound /\ HasSignature(inv[i].earliestSignature))
        => inv[i].earliestSignature = OldestDeployment

\* The walk of invocation i ended normally: the transaction of the chosen
\* signature is requested or has arrived.
WalkEnded(i) == inv[i].pc = "final" \/ inv[i].nFinalOk > 0

\* C10: in best-effort mode a walk that ends normally on a non-empty history
\* has chosen the oldest signature of the history, which is the last element
\* of the last non-empty batch.
C10_BestEffortChoosesOldest ==
    \A i \in Invs :
        (impl # "ts" /\ WalkEnded(i) /\ histLen > 0)
        => /\ inv[i].earliestSignature = histLen
           /\ inv[i].earliestSignature = inv[i].lastBatchEnd

\* a walk over two full pages, ended by the empty third batch
C10_Witness ==
    \E i \in Invs :
        /\ impl = "js" /\ inv[i].pc = "final" /\ histLen = 2 * PageLimit
        /\ inv[i].nListOk = 3 /\ inv[i].lastBatchLen = 0
        /\ inv[i].earliestSignature = histLen

\* C8: at most one remote call is in flight in the process at any instant,
\* however many invocations have requested one.
C8_AtMostOneInFlight == Cardinality(active) <= 1

\* one call in flight while the call of another invocation waits its turn
C8_Witness ==
    \E i, j \in Invs :
        /\ i # j /\ active = {i} /\ queue = <<j>>
        /\ inv[i].pc = "list" /\ inv[j].pc = "final"

\* C11: isProgramDeployment answers true exactly when an instruction of the
\* list targets the loader: for every instruction list, and in particular
\* for each list the strict walk has classified; an empty list and a list
\* without a loader instruction are not deployments.
C11_ClassifiesByLoader ==
    /\ \A l \in InstructionLists : isProgramDeployment(l) <=> TargetsLoader(l)
    /\ ~isProgramDeployment(<<>>)
    /\ \A i \in Invs :
          inv[i].classified # <<>>
          => LET c == inv[i].classified[1]
             IN  /\ c.result <=> TargetsLoader(c.instructions)
                 /\ c.instructions = <<>> => ~c.result

\* a transaction whose second instruction targets the loader was classified
C11_Witness ==
    \E i \in Invs :
        /\ inv[i].classified # <<>>
        /\ inv[i].classified[1].instructions = <<"System", BPF_LOADER_PROGRAM_ID>>
        /\ inv[i].classified[1].result
        /\ inv[i].pc = "final" /\ inv[i].earliestSignature \in deploys

\* The strict walk classifies the transaction of signature s as a deployment.
IsDeploymentAt(s) ==
    LET t == getTransaction(txFound, chainBlockTime, deploys, s)
    IN  t # <<>> /\ isProgramDeployment(t[1].instructions)

\* The cursors of the walk over the ledger when no call is throttled,
\* starting with the call whose cursor is `before`.
RECURSIVE WalkCursors(_)
WalkCursors(before) ==
    LET sigs == getSignaturesForAddress(histLen, before)
        ends == IF impl = "ts"
                THEN sigs = <<>> \/ \E k \in 1..Len(sigs) : IsDeploymentAt(sigs[k])
                ELSE Len(sigs) < PageLimit
    IN  IF ends THEN <<before>>
        ELSE <<before>> \o WalkCursors(sigs[Len(sigs)])

\* The signature the walk over the ledger chooses when no call is throttled.
WalkSignature ==
    IF impl = "ts"
    THEN CHOOSE s \in 1..histLen :
             IsDeploymentAt(s) /\ \A t \in 1..(s - 1) : ~IsDeploymentAt(t)
    ELSE histLen

IsPrefix(a, b) == Len(a) <= Len(b) /\ \A k \in 1..Len(a) : a[k] = b[k]

\* C12: throttling that is recovered is transparent to the walk.  Every
\* invocation, throttled or not, uses a prefix of the cursors of the
\* unthrottled walk; one whose walk ended has used exactly those cursors, and
\* one that resolved from the ledger reports the signature and the blockTime
\* of the unthrottled walk.
C12_ThrottlingIsTransparent ==
    \A i \in Invs :
        /\ IsPrefix(inv[i].cursors, WalkCursors(Undefined))
        /\ WalkEnded(i) => inv[i].cursors = WalkCursors(Undefined)
        /\ (inv[i].report # <<>> /\ ~inv[i].cacheHit)
           => /\ inv[i].report[1].earliestSignature = WalkSignature
              /\ inv[i].report[1].blockTime = chainBlockTime
              /\ inv[i].cursors = WalkCursors(Undefined)

\* a strict walk resolved although the fetch of a transaction of its batch
\* was throttled: the batch was listed twice with the same cursor
C12_Witness ==
    \E i \in Invs :
        /\ impl = "ts" /\ inv[i].report # <<>> /\ inv[i].throttled
        /\ histLen = PageLimit /\ inv[i].nListOk = 2 /\ Len(inv[i].cursors) = 1

\* C13 (as claimed): the retry counter is 0 again after any successful
\* remote call, so a walk that is not in a run of throttling failures and
\* has calls left to make has retries = 0, and a walk gives up on throttling
\* only at the end of a full run of maxRetries + 1 consecutive failures.
C13_RetriesResetBySuccess ==
    \A i \in Invs :
        /\ (inv[i].streak = 0 /\ inv[i].pc \in {"list", "scan", "delay"})
           => inv[i].retries = 0
        /\ (inv[i].pc = "done" /\ GaveUp(i)) => inv[i].streak = RetryLimit(impl) + 1

\* C14 (as claimed): a throttling failure of any remote call, the
\* getTransaction call for the chosen signature included, is retried; an
\* invocation ends on a throttling failure only when that failure is the
\* last of maxRetries + 1 consecutive ones.
C14_EveryThrottledCallIsRetried ==
    \A i \in Invs :
        (inv[i].pc = "done" /\ inv[i].error \in {"TooManyRequests", "RetryExhausted"})
        => inv[i].streak = RetryLimit(impl) + 1

\* C15: a remote call that fails without a throttling signal is not
\* retried: the invocation has ended with the error, it sleeps through no
\* backoff and nothing of it waits in the limiter or is in flight.
C15_OtherFailureIsFatal ==
    \A i \in Invs :
        inv[i].failed
        => /\ inv[i].pc = "done" /\ inv[i].error = "RemoteError"
           /\ inv[i].sleeping = 0 /\ ~InLimiter(i)

\* a listSignatures call that was being retried after a 429 fails with
\* another error while retries remain
C15_Witness ==
    \E i \in Invs :
        /\ inv[i].failed /\ inv[i].retries = 1 /\ inv[i].nListOk = 0
        /\ inv[i].pc = "done" /\ inv[i].error = "RemoteError"

\* The errors the specification calls fatal.
FatalErrors ==
    {"InvalidProgramId", "NoTransactionsFound", "NoDeploymentFound",
     "RetryExhausted", "TooManyRequests", "RemoteError"}

\* C16 (as claimed): an invocation that ended with a fatal error has failed
\* for its caller: its promise is rejected, never resolved.
C16_FatalErrorReachesCaller ==
    \A i \in Invs :
        (inv[i].pc = "done" /\ inv[i].error \in FatalErrors)
        => inv[i].settled = "rejected"

\* C17 (as claimed): on a history that fits in one partial batch a
\* successful unthrottled invocation of getFirstTransactionTimestamp has made
\* exactly one listSignatures call and one getTransaction call and hands its
\* caller the ISO-8601 rendering of the blockTime of the transaction.
C17_ReturnsIsoTimestamp ==
    \A i \in Invs :
        (/\ impl # "ts" /\ histLen \in 1..(PageLimit - 1)
         /\ inv[i].pc = "done" /\ inv[i].error = "none"
         /\ ~inv[i].cacheHit /\ ~inv[i].throttled)
        => /\ inv[i].nListOk = 1 /\ inv[i].nFinalOk = 1
           /\ inv[i].returned = <<toISOString(chainBlockTime)>>

\* Invocation i resolved a blockTime from the ledger and reported it.
ResolvedRemotely(i) ==
    inv[i].pc = "done" /\ inv[i].error = "none" /\ inv[i].nFinalOk = 1

\* C18: after a successful remote resolution the cache entry of the program
\* is {blockTime, earliestSignature} of the resolution when the cache had no
\* entry or another blockTime, and is the entry it was otherwise (a forced
\* refresh that resolves the cached blockTime included).
C18_CacheWrittenIffDiffers ==
    \A i \in Invs :
        (impl = "js" /\ ResolvedRemotely(i))
        => LET old == inv[i].entryBefore
               now == getCachedData(cache, CacheKey(inv[i].programId))
               differs == old = <<>> \/ old[1].blockTime # inv[i].report[1].blockTime
           IN  /\ differs => (now = inv[i].report /\ inv[i].nWrites = 1)
               /\ ~differs => (now = old /\ inv[i].nWrites = 0)

\* a forced refresh resolved the cached blockTime, with another signature
\* than the cached one, and left the entry as it was
C18_Witness ==
    \E i \in Invs :
        /\ impl = "js" /\ ResolvedRemotely(i) /\ inv[i].forceRefresh
        /\ inv[i].entryBefore # <<>>
        /\ inv[i].entryBefore[1].blockTime = inv[i].report[1].blockTime
        /\ inv[i].entryBefore[1].earliestSignature # inv[i].report[1].earliestSignature
        /\ getCachedData(cache, CacheKey(inv[i].programId)) = inv[i].entryBefore

\* C19: an invocation with an identifier that does not decode has ended
\* with InvalidProgramId at once: it has issued and queued no remote call,
\* has not read or written the cache, and has not slept or retried.
C19_InvalidIdRejectedFirst ==
    \A i \in Invs :
        (inv[i].pc # "idle" /\ ~PublicKeyOk(inv[i].programId))
        => /\ inv[i].pc = "done" /\ inv[i].error = "InvalidProgramId"
           /\ ~inv[i].issued /\ ~InLimiter(i)
           /\ ~inv[i].cacheRead /\ inv[i].nWrites = 0
           /\ inv[i].retries = 0 /\ inv[i].sleeping = 0

\* the cached implementation rejects an identifier while its cache file has
\* an entry from an earlier invocation
C19_Witness ==
    \E i \in Invs :
        /\ impl = "js" /\ inv[i].programId \in InvalidIds
        /\ inv[i].pc = "done" /\ inv[i].error = "InvalidProgramId"
        /\ cache[CacheKey("P1")] # <<>>

\* C20 (as claimed): a strict walk over a history without a transaction that
\* classifies as a deployment, ended by no remote failure, fails with
\* NoDeploymentFound after every batch was scanned to its end, and never
\* requests the transaction of a chosen signature.
C20_ExhaustedStrictWalkFails ==
    \A i \in Invs :
        (/\ impl = "ts" /\ inv[i].pc = "done" /\ PublicKeyOk(inv[i].programId)
         /\ ~inv[i].failed /\ inv[i].error # "TooManyRequests"
         /\ \A g \in 1..histLen : ~IsDeploymentAt(g))
        => /\ inv[i].error = "NoDeploymentFound"
           /\ inv[i].settled = "rejected"
           /\ inv[i].totalSignaturesFetched = histLen
           /\ inv[i].nFinalOk = 0 /\ ~InLimiter(i)

\* C21: the delay between batches is the request interval of the
\* implementation, and a listSignatures call that follows a batch of the
\* same walk is requested only after a sleep of at least that interval has
\* elapsed since the batch arrived.
C21_DelayBetweenBatches ==
    \A i \in Invs :
        /\ inv[i].pc = "delay" => inv[i].sleeping = Interval(impl)
        /\ (inv[i].pc = "list" /\ inv[i].nListOk >= 1)
           => inv[i].waited >= Interval(impl)

\* the second listSignatures call of an unthrottled walk is in flight after
\* the delay between batches
C21_Witness ==
    \E i \in Invs :
        /\ impl = "js" /\ inv[i].pc = "list" /\ i \in active
        /\ inv[i].nListOk = 1 /\ ~inv[i].throttled
        /\ inv[i].waited = REQUEST_INTERVAL_MS

\* The entries the resolver may write: a blockTime of the ledger (null
\* included) and a signature.
WritableEntries ==
    [blockTime : BlockTimes \cup {Null}, earliestSignature : 1..MaxHistory]

\* C22: whatever the cache file holds, writing an entry for a program and
\* reading the program back returns exactly that entry; a key the file does
\* not hold reads as absent; and the entry an invocation finds at its start
\* is the one the file holds, as the earlier invocations wrote it.
C22_CacheRoundTrip ==
    /\ \A k \in CacheKeys, e \in WritableEntries :
          getCachedData(setCachedData(cache, k, e), k) = <<e>>
    /\ \A k \in CacheKeys : cache[k] = <<>> => getCachedData(cache, k) = <<>>
    /\ \A i \in Invs :
          (inv[i].cacheRead /\ inv[i].nWrites = 0)
          => inv[i].startCache = getCachedData(cache, CacheKey(inv[i].programId))

\* an invocation answers from the entry an earlier invocation wrote after a
\* walk over more than one page (the file had no entry for its program at
\* first), while the other program has no entry
C22_Witness ==
    \E i \in Invs :
        /\ impl = "js" /\ inv[i].cacheHit /\ histLen > PageLimit
        /\ inv[i].programId = "P429"
        /\ inv[i].startCache =
              <<[blockTime |-> chainBlockTime, earliestSignature |-> histLen]>>
        /\ getCachedData(cache, CacheKey("P1")) = <<>>

\* The result of a walk over the ledger.
WalkResult == [blockTime |-> chainBlockTime, earliestSignature |-> WalkSignature]

\* C23: on a fixed ledger, starting without a cache file, every invocation
\* that reports a result reports the result of the walk over the ledger,
\* answered from the cache or not, forced or not, first or later; and the
\* cache entries the invocations leave hold that result.
C23_SameResultEveryTime ==
    /\ \A i \in Invs : inv[i].report # <<>> => inv[i].report = <<WalkResult>>
    /\ \A k \in CacheKeys :
          cache[k] # <<>> => getCachedData(cache, k) = <<WalkResult>>

\* a result answered from the cache, and a forced refresh that finds an
\* entry and resolves the same result again
C23_Witness ==
    \E i \in Invs :
        /\ impl = "js" /\ inv[i].report # <<>> /\ inv[i].startCache # <<>>
        /\ inv[i].report = inv[i].startCache
        /\ histLen > PageLimit
        /\ inv[i].cacheHit \/ (inv[i].forceRefresh /\ inv[i].nFinalOk = 1)

\* C24 (as claimed): an invocation that ended in an error has written no
\* cache entry, and the entry of its program is the one it found at its
\* start.
C24_ErrorLeavesCacheAlone ==
    \A i \in Invs :
        (inv[i].pc = "done" /\ inv[i].error # "none")
        => /\ inv[i].nWrites = 0
           /\ inv[i].cacheRead
              => getCachedData(cache, CacheKey(inv[i].programId)) = inv[i].startCache

\* Every invocation that started ends, whatever the answers of the node.
Terminates == \A i \in Invs : (inv[i].pc # "idle") ~> (inv[i].pc = "done")

\* C25 (as claimed): an invocation terminates because every successful
\* listSignatures call advances the cursor, so that a walk has had at least
\* as many distinct cursors as successful calls, and because a run of
\* consecutive throttling failures is bounded by the retry limit.
C25_EverySuccessAdvances ==
    \A i \in Invs :
        /\ inv[i].nListOk <= Len(inv[i].cursors)
        /\ inv[i].streak <= RetryLimit(impl) + 1

\* C26: in best-effort mode a history of a whole number of pages, not
\* empty, is never reported as NoTransactionsFound; a walk over it that
\* ended has made one successful listSignatures call more than the history
\* has pages, the last of them returned the empty batch, and the chosen
\* signature is the last one of the last full page.
C26_EmptyBatchEndsFullPages ==
    \A i \in Invs :
        (impl # "ts" /\ histLen > 0 /\ histLen % PageLimit = 0)
        => /\ inv[i].error # "NoTransactionsFound"
           /\ WalkEnded(i)
              => /\ inv[i].nListOk = (histLen \div PageLimit) + 1
                 /\ inv[i].lastBatchLen = 0
                 /\ inv[i].earliestSignature = histLen
                 /\ inv[i].earliestSignature = inv[i].okCursor

\* the compiled implementation reports a result for a history of three
\* full pages after four listSignatures calls
C26_Witness ==
    \E i \in Invs :
        /\ impl = "dist" /\ histLen = 3 * PageLimit
        /\ inv[i].pc = "done" /\ inv[i].report # <<>>
        /\ inv[i].nListOk = 4 /\ inv[i].lastBatchLen = 0

\* C27: writing the entry of one program leaves the entry of every other
\* program as it was: for every cache file and every entry written, and in
\* every step of the resolver, which changes at most the entry of the
\* program of the invocation whose last call is answered.
C27_WriteKeepsOtherEntries ==
    /\ [](\A k, k2 \in CacheKeys, e \in WritableEntries :
            k2 # k => /\ setCachedData(cache, k, e)[k2] = cache[k2]
                      /\ getCachedData(setCachedData(cache, k, e), k2)
                           = getCachedData(cache, k2))
    /\ [][\A k \in CacheKeys :
            cache'[k] # cache[k]
            => \E i \in active : /\ inv[i].pc = "final"
                                  /\ k = CacheKey(inv[i].programId)]_vars

\* the file holds the entry it had for P1 at first, which is not the result
\* of a walk, after an invocation has written the entry of P429
C27_Witness ==
    /\ impl = "js" /\ histLen > 0
    /\ getCachedData(cache, CacheKey("P429")) = <<WalkResult>>
    /\ cache[CacheKey("P1")] # <<>>
    /\ getCachedData(cache, CacheKey("P1")) # <<WalkResult>>

\* Invocation i has completed its cache update.
Updated(i) == inv[i].pc = "done" /\ inv[i].nWrites = 1

\* The entry invocation i wrote is not in the file.
Lost(i) == Updated(i) /\ cache[CacheKey(inv[i].programId)] = <<>>

\* C28: processes that update the one cache file for different programs are
\* not coordinated.  The entry a process wrote is missing from the file only
\* because another process, which loaded the file before that entry was in
\* it, has rewritten the file from what it had loaded; the file then holds
\* the entry of that process.
C28_LostUpdateByInterleaving ==
    \A i \in Invs :
        Lost(i)
        => \E j \in Others(i) :
              /\ inv[j].loaded # <<>>
              /\ inv[j].loaded[1][CacheKey(inv[i].programId)] = <<>>
              /\ Updated(j)
              /\ cache = SavedFile(inv[j])

\* both processes have completed their cache update and the entry of one of
\* them is lost
C28_Witness ==
    \E i, j \in Invs :
        /\ i # j /\ Updated(i) /\ Updated(j)
        /\ Lost(i) /\ ~Lost(j)
        /\ inv[i].report # <<>> /\ inv[j].report # <<>>

====
